---- MODULE Spec2Model ----
(***************************************************************************)
(* Saving and loading networks (notebook "Part 6 - Saving and Loading      *)
(* Models") and the training loop (notebook "Part 3 - Training Neural      *)
(* Networks").                                                             *)
(*                                                                         *)
(* A tensor is its shape and an abstract content `data`; a Linear layer    *)
(* holds a weight of shape <<out, in>> and a bias of shape <<out>>; a      *)
(* Python dict is a function from its keys; the file 'checkpoint.pth'      *)
(* holds the serialized items of the object given to torch.save.           *)
(***************************************************************************)
EXTENDS Integers, Sequences, FiniteSets, TLC

VARIABLES
    pc,          \* Part 6: execution count of the next cell in the recorded order (0: free order)
    model,       \* Part 6: the global `model`
    state_dict,  \* Part 6: the global `state_dict`
    checkpoint,  \* Part 6: the global `checkpoint`
    file,        \* the content of 'checkpoint.pth'
    last,        \* the cell run last and the error it raised
    trained,     \* history: the network as fc_model.train left it
    saved,       \* history: what the last torch.save wrote, and from which network
    epochs,      \* Part 3: `epochs`
    print_every, \* Part 3: `print_every`
    loader,      \* Part 3: the sizes of the batches trainloader yields in one epoch
    tpc,         \* Part 3: the statement of the training loop to run next
    e,           \* Part 3: `e` (-1 before the first epoch)
    b,           \* Part 3: how many batches the iterator of this epoch has yielded
    steps,       \* Part 3: `steps`
    images,      \* Part 3: the shape of `images`
    labels,      \* Part 3: the shape of `labels`
    output,      \* Part 3: `output`, the batch it was computed from and its rows
    loss,        \* Part 3: `loss`, the batch it is the loss of and its value
    grad,        \* Part 3: the batches whose loss gradients the parameters' .grad holds
    applied,     \* Part 3: the gradient that optimizer.step() applied last
    running_loss,\* Part 3: `running_loss`
    printed,     \* Part 3: the last line printed: epoch label and running_loss / print_every
    trace,       \* history: the library calls of the loop, each with its batch
    summed,      \* history: the batches whose losses running_loss holds, with their values
    lines,       \* history: the lines printed so far, each with the batch it followed
    testloader,  \* fc_model.train: the sizes of the batches testloader yields
    validation,  \* fc_model.train: what validation(model, testloader, criterion) returned last
    weights,     \* Part 3: the parameters of `model`: the gradients optimizer.step() applied so far
    pred,        \* Part 3: `img`, `logits` and `ps` of the prediction cell
    autograd     \* Part 3: the autograd cells: the next cell and `x`, `y`, `z`, `x.grad`

\* the variables of Part 6 and of Part 3
svars == <<pc, model, state_dict, checkpoint, file, last, trained, saved>>
tvars == <<epochs, print_every, loader, tpc, e, b, steps, images, labels, output, loss,
           grad, applied, running_loss, printed, trace>>
\* the histories of the loops and the variables of fc_model.train
rvars == <<summed, lines, testloader, validation, weights, pred, autograd>>
vars == <<svars, tvars, rvars>>

----------------------------------------------------------------------------
(* Bounds of the model *)

\* tensor contents are drawn from 0..MaxVal
MaxVal == 1
\* the longest hidden_layers list of a network built from drawn inputs
MaxHidden == 2
\* drawn hidden widths are 1..MaxWidth
MaxWidth == 2

\* Part 3: epochs is drawn from 0..MaxEpochs
MaxEpochs == 2
\* Part 3: the loader yields 0..MaxBatches batches per epoch
MaxBatches == 3
\* Part 3: print_every is drawn from 1..MaxPrintEvery
MaxPrintEvery == 2
\* Part 3: the entries of the tensor x are drawn from -MaxX..MaxX
MaxX == 1
\* fc_model.train: testloader yields 1..MaxTestBatches batches
MaxTestBatches == 2
\* fc_model.train: the accuracy of a test batch is drawn from 0/AccSteps .. AccSteps/AccSteps
AccSteps == 1

Vals == 0..MaxVal
Widths == 1..MaxWidth

\* the non-empty width lists of length at most MaxHidden
HiddenChoices == UNION {[1..n -> Widths] : n \in 1..MaxHidden}

(* Program constants *)
CheckpointInputSize == 784
CheckpointOutputSize == 10

\* DataLoader(trainset, batch_size=64, shuffle=True)
BatchSize == 64
\* images.resize_(images.size()[0], 784)
FlatSize == 784

InputSizes == {CheckpointInputSize, 28}
OutputSizes == {CheckpointOutputSize, 2}

----------------------------------------------------------------------------
(* Values *)

\* a name that is not bound, a file that does not exist
Undef == [undef |-> TRUE]
Defined(v) == "undef" \notin DOMAIN v

Tensor(shape, data) == [shape |-> shape, data |-> data]

\* nn.Linear(in_features, out_features)
Linear(i, o, seed) ==
    [in_features |-> i, out_features |-> o,
     weight |-> Tensor(<<o, i>>, seed), bias |-> Tensor(<<o>>, seed)]

\* mutant: every hidden layer takes input_size inputs
NetworkAllFromInput(input_size, output_size, hidden_layers, seed) ==
    [hidden_layers |->
        [k \in 1..Len(hidden_layers) |-> Linear(input_size, hidden_layers[k], seed)],
     output |-> Linear(hidden_layers[Len(hidden_layers)], output_size, seed),
     dropout |-> [inplace |-> FALSE]]

\* fc_model.Network(input_size, output_size, hidden_layers), its parameters
\* initialised with content `seed`
Network(input_size, output_size, hidden_layers, seed) ==
    [hidden_layers |->
        [k \in 1..Len(hidden_layers) |->
            Linear(IF k = 1 THEN input_size ELSE hidden_layers[k - 1],
                   hidden_layers[k], seed)],
     output |-> Linear(hidden_layers[Len(hidden_layers)], output_size, seed),
     dropout |-> [inplace |-> FALSE]]

\* the parameter names of a Linear registered under `prefix`
ParamName(prefix, leaf) == prefix \o "." \o leaf

\* mutant: the children of the ModuleList counted from 1
HiddenPrefixFromOne(k) == "hidden_layers." \o ToString(k + 1)

\* the name of child k (counted from 0) of the ModuleList hidden_layers
HiddenPrefix(k) == "hidden_layers." \o ToString(k)

\* the entries a Linear registered under `prefix` adds to a state dict
LinearEntries(prefix, lin) ==
    (ParamName(prefix, "weight") :> lin.weight) @@ (ParamName(prefix, "bias") :> lin.bias)

RECURSIVE ModuleListEntries(_, _)
ModuleListEntries(layers, n) ==
    IF n = 0 THEN <<>>
    ELSE ModuleListEntries(layers, n - 1) @@ LinearEntries(HiddenPrefix(n - 1), layers[n])

\* model.state_dict(): the parameters of the children, in registration order;
\* Dropout has no parameter
StateDictOf(net) ==
    ModuleListEntries(net.hidden_layers, Len(net.hidden_layers))
        @@ LinearEntries("output", net.output)

\* mutant: each.in_features in place of each.out_features
InFeatures(net) == [k \in 1..Len(net.hidden_layers) |-> net.hidden_layers[k].in_features]

\* [each.out_features for each in model.hidden_layers]
OutFeatures(net) == [k \in 1..Len(net.hidden_layers) |-> net.hidden_layers[k].out_features]

\* the network with its parameters replaced by those of `params`
WithParams(net, params) ==
    [net EXCEPT
        !.hidden_layers =
            [k \in DOMAIN @ |->
                [@[k] EXCEPT
                    !.weight = params[ParamName(HiddenPrefix(k - 1), "weight")],
                    !.bias = params[ParamName(HiddenPrefix(k - 1), "bias")]]],
        !.output =
            [@ EXCEPT !.weight = params[ParamName("output", "weight")],
                      !.bias = params[ParamName("output", "bias")]]]

\* the contents training may leave: one per Linear layer, the output layer last
Contents(net) == [1..(Len(net.hidden_layers) + 1) -> Vals]

\* the network with the parameters of its k-th Linear layer given content t[k]
WithData(net, t) ==
    [net EXCEPT
        !.hidden_layers =
            [k \in DOMAIN @ |-> [@[k] EXCEPT !.weight.data = t[k], !.bias.data = t[k]]],
        !.output = [@ EXCEPT !.weight.data = t[Len(net.hidden_layers) + 1],
                             !.bias.data = t[Len(net.hidden_layers) + 1]]]

(* Errors *)
NoError == [type |-> "none", missing |-> {}, unexpected |-> {}, size_mismatch |-> {}]
KeyError(k) == [type |-> "KeyError", missing |-> {k}, unexpected |-> {}, size_mismatch |-> {}]
RuntimeError(m, u, s) ==
    [type |-> "RuntimeError", missing |-> m, unexpected |-> u, size_mismatch |-> s]

\* mutant: every name present on both sides is reported
SizeMismatchCommon(own, sd) == DOMAIN own \cap DOMAIN sd

\* mutant: the check stops at the first parameter whose shape differs
FirstSizeMismatch(own, sd) ==
    LET all == {n \in DOMAIN own \cap DOMAIN sd : sd[n].shape # own[n].shape}
    IN  IF all = {} THEN {} ELSE {CHOOSE n \in all : TRUE}

\* the names present on both sides whose shapes differ
SizeMismatch(own, sd) ==
    {n \in DOMAIN own \cap DOMAIN sd : sd[n].shape # own[n].shape}

\* mutant: the keys are checked and nothing is copied
LoadStateDictNoCopy(net, sd) ==
    LET own == StateDictOf(net)
        mism == SizeMismatch(own, sd)
        missing == DOMAIN own \ DOMAIN sd
        unexpected == DOMAIN sd \ DOMAIN own
    IN  [model |-> net,
         error |-> IF mism = {} /\ missing = {} /\ unexpected = {}
                   THEN NoError
                   ELSE RuntimeError(missing, unexpected,
                            {[name |-> n, from |-> sd[n].shape, to |-> own[n].shape] : n \in mism})]

\* mutant: parameters are copied only when nothing is reported
LoadStateDictAllOrNothing(net, sd) ==
    LET own == StateDictOf(net)
        mism == SizeMismatch(own, sd)
        missing == DOMAIN own \ DOMAIN sd
        unexpected == DOMAIN sd \ DOMAIN own
    IN  IF mism = {} /\ missing = {} /\ unexpected = {}
        THEN [model |-> WithParams(net, [n \in DOMAIN own |-> [own[n] EXCEPT !.data = sd[n].data]]),
              error |-> NoError]
        ELSE [model |-> net,
              error |-> RuntimeError(missing, unexpected,
                            {[name |-> n, from |-> sd[n].shape, to |-> own[n].shape] : n \in mism})]

\* mutant: strict=False, missing and unexpected keys are not reported
LoadStateDictNotStrict(net, sd) ==
    LET own == StateDictOf(net)
        mism == SizeMismatch(own, sd)
        copied == [n \in DOMAIN own |->
                      IF n \in DOMAIN sd /\ n \notin mism
                      THEN [own[n] EXCEPT !.data = sd[n].data]
                      ELSE own[n]]
    IN  [model |-> WithParams(net, copied),
         error |-> IF mism = {} THEN NoError
                   ELSE RuntimeError({}, {},
                            {[name |-> n, from |-> sd[n].shape, to |-> own[n].shape] : n \in mism})]

\* model.load_state_dict(state_dict), strict: a parameter whose shape agrees is
\* copied, one whose shape differs is reported and left alone; missing and
\* unexpected keys are reported; any report raises one RuntimeError at the end
LoadStateDict(net, sd) ==
    LET own == StateDictOf(net)
        mism == SizeMismatch(own, sd)
        missing == DOMAIN own \ DOMAIN sd
        unexpected == DOMAIN sd \ DOMAIN own
        copied == [n \in DOMAIN own |->
                      IF n \in DOMAIN sd /\ n \notin mism
                      THEN [own[n] EXCEPT !.data = sd[n].data]
                      ELSE own[n]]
    IN  [model |-> WithParams(net, copied),
         error |-> IF mism = {} /\ missing = {} /\ unexpected = {}
                   THEN NoError
                   ELSE RuntimeError(missing, unexpected,
                            {[name |-> n, from |-> sd[n].shape, to |-> own[n].shape] : n \in mism})]

(* Serialization *)
RECURSIVE Items(_, _)
Items(d, keys) ==
    IF keys = {} THEN <<>>
    ELSE LET k == CHOOSE x \in keys : TRUE
         IN  <<<<k, d[k]>>>> \o Items(d, keys \ {k})

\* the serialized form of a dict: its items; a nested state dict is serialized too
Dumps(d) ==
    [items |-> Items([k \in DOMAIN d |->
                         IF k = "state_dict" THEN Items(d[k], DOMAIN d[k]) ELSE d[k]],
                     DOMAIN d)]

FromItems(s) ==
    [k \in {s[i][1] : i \in DOMAIN s} |-> s[CHOOSE i \in DOMAIN s : s[i][1] = k][2]]

\* torch.load: the dict of the serialized items
Loads(s) ==
    LET d == FromItems(s.items)
    IN  [k \in DOMAIN d |-> IF k = "state_dict" THEN FromItems(d[k]) ELSE d[k]]

----------------------------------------------------------------------------
(* Part 6: the checkpoint *)

\* mutant: the checkpoint mapping without its output_size entry
BuildCheckpointNoOutputSize(net) ==
    [input_size |-> CheckpointInputSize,
     hidden_layers |-> OutFeatures(net),
     state_dict |-> StateDictOf(net)]

\* the checkpoint mapping of the save cell, built from the network bound to `model`
BuildCheckpoint(net) ==
    [input_size |-> CheckpointInputSize,
     output_size |-> CheckpointOutputSize,
     hidden_layers |-> OutFeatures(net),
     state_dict |-> StateDictOf(net)]

\* mutant: output_size is read first
CheckpointKeysOutputFirst == <<"output_size", "input_size", "hidden_layers", "state_dict">>

\* the keys load_checkpoint reads, in the order it reads them
CheckpointKeys == <<"input_size", "output_size", "hidden_layers", "state_dict">>

\* the first key load_checkpoint reads that the loaded dict lacks (0: none)
FirstMissing(d) ==
    IF \A i \in DOMAIN CheckpointKeys : CheckpointKeys[i] \in DOMAIN d THEN 0
    ELSE CHOOSE i \in DOMAIN CheckpointKeys :
            /\ CheckpointKeys[i] \notin DOMAIN d
            /\ \A j \in 1..(i - 1) : CheckpointKeys[j] \in DOMAIN d

\* mutant: load_checkpoint without its load_state_dict call
LoadCheckpointNoLoad(content, seed) ==
    LET ck == Loads(content)
        m == FirstMissing(ck)
    IN  IF m # 0 THEN [model |-> Undef, error |-> KeyError(CheckpointKeys[m])]
        ELSE [model |-> Network(ck.input_size, ck.output_size, ck.hidden_layers, seed),
              error |-> NoError]

\* load_checkpoint(filepath) on a file holding `content`; `seed` is the content
\* the constructor gives the new network's parameters. The network is returned
\* only when nothing was raised.
LoadCheckpoint(content, seed) ==
    LET ck == Loads(content)
        m == FirstMissing(ck)
    IN  IF m # 0 THEN [model |-> Undef, error |-> KeyError(CheckpointKeys[m])]
        ELSE LET net == Network(ck.input_size, ck.output_size, ck.hidden_layers, seed)
                 r == LoadStateDict(net, ck.state_dict)
             IN  IF r.error = NoError THEN r ELSE [model |-> Undef, error |-> r.error]

Ran(cell, error) == [cell |-> cell, error |-> error]

(* The cells. A cell that reads an unbound name or a file that does not exist *)
(* raises before it changes anything: it is not enabled.                      *)

\* model = fc_model.Network(input_size, output_size, hidden_layers)
BuildModelCell(i, o, h, seed) ==
    /\ model' = Network(i, o, h, seed)
    /\ last' = Ran("build", NoError)
    /\ UNCHANGED <<state_dict, checkpoint, file, trained, saved, tvars, rvars>>

\* fc_model.train(model, ...): every parameter of `model` gets new content
TrainCell(t) ==
    /\ Defined(model)
    /\ model' = WithData(model, t)
    /\ trained' = model'
    /\ last' = Ran("train", NoError)
    /\ UNCHANGED <<state_dict, checkpoint, file, saved, tvars, rvars>>

\* print(model); print(model.state_dict().keys())
PrintKeysCell ==
    /\ Defined(model)
    /\ last' = Ran("print_keys", NoError)
    /\ UNCHANGED <<model, state_dict, checkpoint, file, trained, saved, tvars, rvars>>

\* torch.save(model.state_dict(), 'checkpoint.pth')
SaveStateDictCell ==
    /\ Defined(model)
    /\ file' = Dumps(StateDictOf(model))
    /\ saved' = [kind |-> "state_dict", net |-> model]
    /\ last' = Ran("save_state_dict", NoError)
    /\ UNCHANGED <<model, state_dict, checkpoint, trained, tvars, rvars>>

\* state_dict = torch.load('checkpoint.pth')
TorchLoadCell ==
    /\ Defined(file)
    /\ state_dict' = Loads(file)
    /\ last' = Ran("torch_load", NoError)
    /\ UNCHANGED <<model, checkpoint, file, trained, saved, tvars, rvars>>

\* model.load_state_dict(state_dict)
LoadStateDictCell ==
    /\ Defined(model)
    /\ Defined(state_dict)
    /\ LET r == LoadStateDict(model, state_dict)
       IN  /\ model' = r.model
           /\ last' = Ran("load_state_dict", r.error)
    /\ UNCHANGED <<state_dict, checkpoint, file, trained, saved, tvars, rvars>>

\* model = fc_model.Network(784, 10, h); model.load_state_dict(state_dict)
RebuildAndLoadCell(i, o, h, seed) ==
    /\ Defined(state_dict)
    /\ LET r == LoadStateDict(Network(i, o, h, seed), state_dict)
       IN  /\ model' = r.model
           /\ last' = Ran("rebuild_and_load", r.error)
    /\ UNCHANGED <<state_dict, checkpoint, file, trained, saved, tvars, rvars>>

\* checkpoint = {...}; torch.save(checkpoint, 'checkpoint.pth')
SaveCheckpointCell ==
    /\ Defined(model)
    /\ checkpoint' = BuildCheckpoint(model)
    /\ file' = Dumps(checkpoint')
    /\ saved' = [kind |-> "checkpoint", net |-> model]
    /\ last' = Ran("save_checkpoint", NoError)
    /\ UNCHANGED <<model, state_dict, trained, tvars, rvars>>

\* def load_checkpoint(filepath): ...
DefLoadCheckpointCell ==
    /\ last' = Ran("def_load_checkpoint", NoError)
    /\ UNCHANGED <<model, state_dict, checkpoint, file, trained, saved, tvars, rvars>>

\* model = load_checkpoint('checkpoint.pth'): `model` is rebound only when
\* load_checkpoint returns
LoadCheckpointCell(seed) ==
    /\ Defined(file)
    /\ LET r == LoadCheckpoint(file, seed)
       IN  /\ model' = IF r.error = NoError THEN r.model ELSE model
           /\ last' = Ran("load_checkpoint", r.error)
    /\ UNCHANGED <<state_dict, checkpoint, file, trained, saved, tvars, rvars>>

----------------------------------------------------------------------------
(* Spec: the cells of Part 6 in their recorded order, In[4] to In[13] *)

TrainedWidths == <<512, 256, 128>>
OtherWidths == <<400, 200, 100>>

\* the kernel before the autograd cells: In[2] is next, nothing is bound
AutogradStart == [cell |-> 2, x |-> Undef, y |-> Undef, z |-> Undef, x_grad |-> Undef]

\* Part 3 is not running
TrainIdle ==
    /\ epochs = 0 /\ print_every = 1 /\ loader = <<>> /\ tpc = "idle"
    /\ e = -1 /\ b = 0 /\ steps = 0 /\ images = <<>> /\ labels = <<>>
    /\ output = Undef /\ loss = Undef /\ grad = <<>> /\ applied = <<>>
    /\ running_loss = 0 /\ printed = Undef /\ trace = <<>>
    /\ summed = <<>> /\ lines = <<>> /\ testloader = <<>> /\ validation = Undef
    /\ weights = <<>> /\ pred = Undef /\ autograd = AutogradStart

Init ==
    /\ TrainIdle
    /\ pc = 4
    /\ model = Undef
    /\ state_dict = Undef
    /\ checkpoint = Undef
    /\ file = Undef
    /\ trained = Undef
    /\ saved = Undef
    /\ last = Ran("none", NoError)

In4 ==
    /\ pc = 4 /\ pc' = 5
    /\ \E seed \in Vals :
          BuildModelCell(CheckpointInputSize, CheckpointOutputSize, TrainedWidths, seed)

In5 == pc = 5 /\ pc' = 6 /\ \E t \in Contents(model) : TrainCell(t)

In6 == pc = 6 /\ pc' = 7 /\ PrintKeysCell

In7 == pc = 7 /\ pc' = 8 /\ SaveStateDictCell

In8 == pc = 8 /\ pc' = 9 /\ TorchLoadCell

In9 == pc = 9 /\ pc' = 10 /\ LoadStateDictCell

In10 ==
    /\ pc = 10 /\ pc' = 11
    /\ \E seed \in Vals :
          RebuildAndLoadCell(CheckpointInputSize, CheckpointOutputSize, OtherWidths, seed)

In11 == pc = 11 /\ pc' = 12 /\ SaveCheckpointCell

In12 == pc = 12 /\ pc' = 13 /\ DefLoadCheckpointCell

In13 == pc = 13 /\ pc' = 14 /\ \E seed \in Vals : LoadCheckpointCell(seed)

Next == In4 \/ In5 \/ In6 \/ In7 \/ In8 \/ In9 \/ In10 \/ In11 \/ In12 \/ In13

Spec == Init /\ [][Next]_vars

----------------------------------------------------------------------------
(* SpecCheckpoint: the checkpoint cells In[11] to In[13], `model` bound to any *)
(* network of the drawn architectures and contents                            *)

Networks(ins, outs) ==
    UNION {{WithData(Network(i, o, h, 0), t) : t \in [1..(Len(h) + 1) -> Vals]} :
              <<i, o, h>> \in ins \X outs \X HiddenChoices}

InitCheckpoint ==
    /\ TrainIdle
    /\ pc = 11
    /\ model \in Networks(InputSizes, OutputSizes)
    /\ state_dict = Undef
    /\ checkpoint = Undef
    /\ file = Undef
    /\ trained = Undef
    /\ saved = Undef
    /\ last = Ran("none", NoError)

NextCheckpoint == In11 \/ In12 \/ In13

SpecCheckpoint == InitCheckpoint /\ [][NextCheckpoint]_vars

----------------------------------------------------------------------------
(* SpecStateDict: the state dict cells In[7] to In[10], the source network and *)
(* the network the state dict is loaded into of any drawn architecture         *)

InitStateDict ==
    /\ TrainIdle
    /\ pc = 7
    /\ model \in {Network(CheckpointInputSize, CheckpointOutputSize, h, seed) :
                     <<h, seed>> \in HiddenChoices \X Vals}
    /\ state_dict = Undef
    /\ checkpoint = Undef
    /\ file = Undef
    /\ trained = Undef
    /\ saved = Undef
    /\ last = Ran("none", NoError)

In10Any ==
    /\ pc = 10 /\ pc' = 11
    /\ \E i \in InputSizes, o \in OutputSizes, h \in HiddenChoices, seed \in Vals :
          RebuildAndLoadCell(i, o, h, seed)

NextStateDict == In7 \/ In8 \/ In9 \/ In10Any

SpecStateDict == InitStateDict /\ [][NextStateDict]_vars

----------------------------------------------------------------------------
(* Properties of Part 6 *)

InputSizeOf(net) == net.hidden_layers[1].weight.shape[2]
OutputSizeOf(net) == net.output.weight.shape[1]

\* the width of each hidden layer: the rows of its weight
WidthsOf(net) == [k \in 1..Len(net.hidden_layers) |-> net.hidden_layers[k].weight.shape[1]]

SameArchitecture(x, y) ==
    /\ InputSizeOf(x) = InputSizeOf(y)
    /\ OutputSizeOf(x) = OutputSizeOf(y)
    /\ WidthsOf(x) = WidthsOf(y)

\* C1: a network built with input size 784 and output size 10 whose checkpoint
\* is saved and then read by load_checkpoint comes back with the same hidden
\* widths in the same order and the same value under every parameter name.
C1_RoundTrip ==
    (/\ pc = 14
     /\ InputSizeOf(saved.net) = 784
     /\ OutputSizeOf(saved.net) = 10)
    => /\ last = Ran("load_checkpoint", NoError)
       /\ WidthsOf(model) = WidthsOf(saved.net)
       /\ DOMAIN StateDictOf(model) = DOMAIN StateDictOf(saved.net)
       /\ \A n \in DOMAIN StateDictOf(saved.net) :
              StateDictOf(model)[n] = StateDictOf(saved.net)[n]

C1_Witness ==
    /\ pc = 14
    /\ InputSizeOf(saved.net) = 784
    /\ OutputSizeOf(saved.net) = 10
    /\ Len(saved.net.hidden_layers) = 2
    /\ WidthsOf(saved.net)[1] # WidthsOf(saved.net)[2]
    /\ saved.net.hidden_layers[1].weight.data # saved.net.output.bias.data
    /\ model = saved.net

\* C3: run in the recorded order, the checkpoint the save cell writes holds the
\* architecture and the parameters of the trained model, and load_checkpoint
\* rebuilds the trained model.
C3_CheckpointIsTrainedModel ==
    /\ pc >= 12 =>
          /\ checkpoint.hidden_layers = WidthsOf(trained)
          /\ checkpoint.state_dict = StateDictOf(trained)
    /\ pc = 14 =>
          /\ last = Ran("load_checkpoint", NoError)
          /\ SameArchitecture(model, trained)
          /\ StateDictOf(model) = StateDictOf(trained)

\* the state dict names of a network with n hidden layers, written out
Digit == <<"0", "1", "2", "3", "4", "5", "6", "7", "8", "9">>
HiddenNames(k) ==
    {"hidden_layers." \o Digit[k + 1] \o ".weight", "hidden_layers." \o Digit[k + 1] \o ".bias"}
ExpectedNames(n) ==
    UNION {HiddenNames(k) : k \in 0..(n - 1)} \cup {"output.weight", "output.bias"}

Min(x, y) == IF x < y THEN x ELSE y

\* the parameters two architectures both have and give different shapes:
\* a hidden weight when its rows or its columns differ, a bias when its width
\* differs; hidden layer k (counted from 1) is named by the digit of k - 1
Incompatible(x, y) ==
    LET wa == WidthsOf(x)
        wb == WidthsOf(y)
        InWidth(net, w, k) == IF k = 1 THEN InputSizeOf(net) ELSE w[k - 1]
        Hidden(k) ==
            (IF wa[k] # wb[k] \/ InWidth(x, wa, k) # InWidth(y, wb, k)
             THEN {"hidden_layers." \o Digit[k] \o ".weight"} ELSE {})
            \cup (IF wa[k] # wb[k] THEN {"hidden_layers." \o Digit[k] \o ".bias"} ELSE {})
    IN  UNION {Hidden(k) : k \in 1..Min(Len(wa), Len(wb))}
        \cup (IF OutputSizeOf(x) # OutputSizeOf(y) \/ wa[Len(wa)] # wb[Len(wb)]
              THEN {"output.weight"} ELSE {})
        \cup (IF OutputSizeOf(x) # OutputSizeOf(y) THEN {"output.bias"} ELSE {})

\* C2 as stated: whenever the hidden widths of the target differ from those of
\* the network the state dict came from, load_state_dict fails with a shape
\* mismatch error that lists every parameter of incompatible shape.
C2_AlwaysShapeMismatch ==
    (pc = 11 /\ WidthsOf(model) # WidthsOf(saved.net))
    => /\ last.error.type = "RuntimeError"
       /\ last.error.size_mismatch # {}
       /\ {r.name : r \in last.error.size_mismatch} = Incompatible(saved.net, model)

\* C2, amended: whenever the hidden widths differ, load_state_dict fails with an
\* error that lists every parameter of incompatible shape; the error holds a
\* shape mismatch when the two networks have the same number of hidden layers,
\* and names missing or unexpected parameters when the numbers differ.
C2_FailsListingEveryMismatch ==
    (pc = 11 /\ WidthsOf(model) # WidthsOf(saved.net))
    => /\ last.error.type = "RuntimeError"
       /\ {r.name : r \in last.error.size_mismatch} = Incompatible(saved.net, model)
       /\ \A r \in last.error.size_mismatch :
             r.from = state_dict[r.name].shape /\ r.to = StateDictOf(model)[r.name].shape
       /\ Len(model.hidden_layers) = Len(saved.net.hidden_layers)
             => last.error.size_mismatch # {}
       /\ Len(model.hidden_layers) # Len(saved.net.hidden_layers)
             => last.error.missing \cup last.error.unexpected # {}

C2_Witness ==
    /\ pc = 11
    /\ Len(model.hidden_layers) = 2
    /\ Len(saved.net.hidden_layers) = 2
    /\ WidthsOf(model)[1] = WidthsOf(saved.net)[1]
    /\ WidthsOf(model)[2] # WidthsOf(saved.net)[2]
    /\ InputSizeOf(model) = InputSizeOf(saved.net)
    /\ Cardinality(last.error.size_mismatch) = 3

\* C4: the checkpoint mapping the save cell writes has exactly the keys
\* input_size, output_size, hidden_layers and state_dict; the sizes are
\* integers, hidden_layers a sequence of integers, state_dict a mapping from
\* parameter names to tensors; the file holds that mapping.
C4_CheckpointShape ==
    Defined(checkpoint)
    => /\ DOMAIN checkpoint = {"input_size", "output_size", "hidden_layers", "state_dict"}
       /\ checkpoint.input_size \in Int
       /\ checkpoint.output_size \in Int
       /\ checkpoint.hidden_layers \in Seq(Int)
       /\ \A n \in DOMAIN checkpoint.state_dict :
             /\ n \in STRING
             /\ DOMAIN checkpoint.state_dict[n] = {"shape", "data"}
       /\ DOMAIN Loads(file) = DOMAIN checkpoint
       /\ \A k \in DOMAIN checkpoint : Loads(file)[k] = checkpoint[k]

C4_Witness ==
    /\ Defined(checkpoint)
    /\ last.cell = "save_checkpoint"
    /\ Len(checkpoint.hidden_layers) = 2
    /\ Cardinality(DOMAIN checkpoint.state_dict) = 6

\* C5: hidden_layers of the checkpoint lists the output widths of the hidden
\* layers of the network bound to `model` when the mapping was built: as many
\* entries as hidden layers, entry k the width of hidden layer k.
C5_HiddenLayersAreWidths ==
    Defined(checkpoint)
    => /\ Len(checkpoint.hidden_layers) = Len(saved.net.hidden_layers)
       /\ \A k \in 1..Len(saved.net.hidden_layers) :
             /\ checkpoint.hidden_layers[k] = saved.net.hidden_layers[k].weight.shape[1]
             /\ checkpoint.hidden_layers[k] = saved.net.hidden_layers[k].bias.shape[1]

C5_Witness ==
    /\ Defined(checkpoint)
    /\ Len(checkpoint.hidden_layers) = 2
    /\ checkpoint.hidden_layers[1] # checkpoint.hidden_layers[2]
    /\ checkpoint.hidden_layers[1] # InputSizeOf(saved.net)

\* C6: whatever input size and output size the network was built with, the
\* checkpoint records them, and load_checkpoint rebuilds the network without a
\* shape mismatch.
C6_RecordsActualSizes ==
    /\ Defined(checkpoint) =>
          /\ checkpoint.input_size = InputSizeOf(saved.net)
          /\ checkpoint.output_size = OutputSizeOf(saved.net)
    /\ pc = 14 =>
          /\ last.error.size_mismatch = {}
          /\ last = Ran("load_checkpoint", NoError)

\* C7: a state dict loaded into a network of the architecture of the network it
\* was taken from loads without error, every key matched, and every parameter
\* of the target then equals the state dict's entry of its name.
C7_SameArchitectureLoads ==
    (pc \in {10, 11} /\ SameArchitecture(model, saved.net))
    => /\ last.error = NoError
       /\ DOMAIN StateDictOf(model) = DOMAIN state_dict
       /\ \A n \in DOMAIN state_dict : StateDictOf(model)[n] = state_dict[n]

C7_Witness ==
    /\ pc = 11
    /\ last = Ran("rebuild_and_load", NoError)
    /\ SameArchitecture(model, saved.net)
    /\ Len(model.hidden_layers) = 2
    /\ model = saved.net

\* C10: the state dict of a network with n hidden layers has exactly the 2n+2
\* names hidden_layers.k.weight, hidden_layers.k.bias (k = 0..n-1),
\* output.weight and output.bias, none for dropout; the state dict read back
\* from the file has the names of the one that was saved.
C10_StateDictNames ==
    /\ Defined(model) =>
          /\ DOMAIN StateDictOf(model) = ExpectedNames(Len(model.hidden_layers))
          /\ Cardinality(DOMAIN StateDictOf(model)) = 2 * Len(model.hidden_layers) + 2
    /\ Defined(state_dict) =>
          /\ DOMAIN state_dict = ExpectedNames(Len(saved.net.hidden_layers))
          /\ Cardinality(DOMAIN state_dict) = 2 * Len(saved.net.hidden_layers) + 2

C10_Witness ==
    /\ pc = 9
    /\ last.cell = "torch_load"
    /\ Len(saved.net.hidden_layers) = 2
    /\ Cardinality(DOMAIN state_dict) = 6

----------------------------------------------------------------------------
(* Part 3: the training loop, one action per statement *)

\* the values loss.item() takes
Losses == {1, 2}

\* the loaders: n batches of BatchSize images, the last one possibly smaller
Loaders ==
    {[k \in 1..n |-> IF k = n THEN tail ELSE BatchSize] :
        <<n, tail>> \in (0..MaxBatches) \X {BatchSize, 32}}

\* Part 6 is not running
NotebookIdle ==
    /\ pc = 0 /\ model = Undef /\ state_dict = Undef /\ checkpoint = Undef
    /\ file = Undef /\ trained = Undef /\ saved = Undef /\ last = Ran("none", NoError)

\* epochs = 3; print_every = 40; steps = 0, for drawn epochs, print_every and loader
InitTrain ==
    /\ NotebookIdle
    /\ epochs \in 0..MaxEpochs
    /\ print_every \in 1..MaxPrintEvery
    /\ loader \in Loaders
    /\ tpc = "for_epoch"
    /\ e = -1 /\ b = 0 /\ steps = 0 /\ images = <<>> /\ labels = <<>>
    /\ output = Undef /\ loss = Undef /\ grad = <<>> /\ applied = <<>>
    /\ running_loss = 0 /\ printed = Undef /\ trace = <<>>
    /\ summed = <<>> /\ lines = <<>> /\ testloader = <<>> /\ validation = Undef
    /\ weights = <<>> /\ pred = Undef /\ autograd = AutogradStart

\* mutant: the optimizer steps before the backward pass
LoopBodyStepFirst ==
    <<"inc", "resize", "zero_grad", "forward", "criterion", "step", "backward",
      "accumulate", "check">>

\* the statements of the body of the batch loop, in program order
LoopBody ==
    <<"inc", "resize", "zero_grad", "forward", "criterion", "backward", "step",
      "accumulate", "check">>

\* the statement after `stmt` in the body
After(stmt) == LoopBody[(CHOOSE i \in DOMAIN LoopBody : LoopBody[i] = stmt) + 1]

\* mutant: range(epochs + 1)
InRangePlusOne(k) == k <= epochs

\* for e in range(epochs): k is in the range
InRange(k) == k < epochs

\* mutant: the iterator stops one batch early
HasNextButLast(n) == n + 1 < Len(loader)

\* for images, labels in iter(trainloader): the iterator that yielded n batches has another
HasNext(n) == n < Len(loader)

Called(op) == trace' = Append(trace, <<e, b, op>>)

\* for e in range(epochs):
ForEpoch ==
    /\ tpc = "for_epoch"
    /\ IF InRange(e + 1)
       THEN e' = e + 1 /\ tpc' = "init_running_loss"
       ELSE e' = e /\ tpc' = "done"
    /\ UNCHANGED <<svars, rvars, epochs, print_every, loader, b, steps, images, labels, output,
                   loss, grad, applied, running_loss, printed, trace>>

\* mutant: running_loss is not reset when an epoch starts
InitRunningLossSkipped ==
    /\ tpc = "init_running_loss"
    /\ tpc' = "iter"
    /\ UNCHANGED <<svars, rvars, epochs, print_every, loader, e, b, steps, images, labels,
                   output, loss, grad, applied, running_loss, printed, trace>>

\* running_loss = 0
InitRunningLoss ==
    /\ tpc = "init_running_loss"
    /\ running_loss' = 0
    /\ summed' = <<>>
    /\ tpc' = "iter"
    /\ UNCHANGED <<svars, lines, testloader, validation, weights, pred, autograd, epochs, print_every, loader, e, b, steps, images, labels, output,
                   loss, grad, applied, printed, trace>>

\* iter(trainloader)
Iter ==
    /\ tpc = "iter"
    /\ b' = 0
    /\ tpc' = "for_batch"
    /\ UNCHANGED <<svars, rvars, epochs, print_every, loader, e, steps, images, labels, output,
                   loss, grad, applied, running_loss, printed, trace>>

\* for images, labels in ...:
ForBatch ==
    /\ tpc = "for_batch"
    /\ IF HasNext(b)
       THEN /\ b' = b + 1
            /\ images' = <<loader[b + 1], 1, 28, 28>>
            /\ labels' = <<loader[b + 1]>>
            /\ tpc' = LoopBody[1]
       ELSE /\ UNCHANGED <<b, images, labels>>
            /\ tpc' = "for_epoch"
    /\ UNCHANGED <<svars, rvars, epochs, print_every, loader, e, steps, output, loss, grad,
                   applied, running_loss, printed, trace>>

\* steps += 1
Inc ==
    /\ tpc = "inc"
    /\ steps' = steps + 1
    /\ tpc' = After("inc")
    /\ UNCHANGED <<svars, rvars, epochs, print_every, loader, e, b, images, labels, output, loss,
                   grad, applied, running_loss, printed, trace>>

\* mutant: images.resize_(64, 784), the batch size written out
ResizeHardCoded ==
    /\ tpc = "resize"
    /\ images' = <<BatchSize, FlatSize>>
    /\ tpc' = After("resize")
    /\ UNCHANGED <<svars, rvars, epochs, print_every, loader, e, b, steps, labels, output,
                   loss, grad, applied, running_loss, printed, trace>>

\* images.resize_(images.size()[0], 784)
Resize ==
    /\ tpc = "resize"
    /\ images' = <<images[1], FlatSize>>
    /\ tpc' = After("resize")
    /\ UNCHANGED <<svars, rvars, epochs, print_every, loader, e, b, steps, labels, output, loss,
                   grad, applied, running_loss, printed, trace>>

\* mutant: zero_grad leaves .grad as it is
ZeroGradKeeps ==
    /\ tpc = "zero_grad"
    /\ Called("zero_grad")
    /\ tpc' = After("zero_grad")
    /\ UNCHANGED <<svars, rvars, epochs, print_every, loader, e, b, steps, images, labels,
                   output, loss, grad, applied, running_loss, printed>>

\* optimizer.zero_grad()
ZeroGrad ==
    /\ tpc = "zero_grad"
    /\ grad' = <<>>
    /\ Called("zero_grad")
    /\ tpc' = After("zero_grad")
    /\ UNCHANGED <<svars, rvars, epochs, print_every, loader, e, b, steps, images, labels, output,
                   loss, applied, running_loss, printed>>

\* output = model.forward(images)
Forward ==
    /\ tpc = "forward"
    /\ output' = [of |-> <<e, b>>, rows |-> images[1]]
    /\ Called("forward")
    /\ tpc' = After("forward")
    /\ UNCHANGED <<svars, rvars, epochs, print_every, loader, e, b, steps, images, labels, loss,
                   grad, applied, running_loss, printed>>

\* loss = criterion(output, labels)
Criterion ==
    /\ tpc = "criterion"
    /\ \E v \in Losses : loss' = [of |-> output.of, value |-> v]
    /\ Called("criterion")
    /\ tpc' = After("criterion")
    /\ UNCHANGED <<svars, rvars, epochs, print_every, loader, e, b, steps, images, labels, output,
                   grad, applied, running_loss, printed>>

\* loss.backward(): the gradient of the loss is added to what .grad holds
Backward ==
    /\ tpc = "backward"
    /\ grad' = Append(grad, loss.of)
    /\ Called("backward")
    /\ tpc' = After("backward")
    /\ UNCHANGED <<svars, rvars, epochs, print_every, loader, e, b, steps, images, labels, output,
                   loss, applied, running_loss, printed>>

\* optimizer.step(): the parameters move along what .grad holds
Step ==
    /\ tpc = "step"
    /\ applied' = grad
    /\ weights' = Append(weights, grad)
    /\ Called("step")
    /\ tpc' = After("step")
    /\ UNCHANGED <<svars, summed, lines, testloader, validation, pred, autograd, epochs, print_every,
                   loader, e, b, steps, images, labels, output, loss, grad, running_loss,
                   printed>>

\* running_loss += loss.item()
Accumulate ==
    /\ tpc = "accumulate"
    /\ running_loss' = running_loss + loss.value
    /\ summed' = Append(summed, <<loss.of[1], loss.of[2], loss.value>>)
    /\ tpc' = After("accumulate")
    /\ UNCHANGED <<svars, lines, testloader, validation, weights, pred, autograd, epochs, print_every, loader, e, b, steps, images, labels, output,
                   loss, grad, applied, printed, trace>>

\* mutant: the batch count of the epoch in place of steps
CheckBatchOfEpoch ==
    /\ tpc = "check"
    /\ tpc' = IF b % print_every = 0 THEN "print" ELSE "for_batch"
    /\ UNCHANGED <<svars, rvars, epochs, print_every, loader, e, b, steps, images, labels,
                   output, loss, grad, applied, running_loss, printed, trace>>

\* if steps % print_every == 0:
Check ==
    /\ tpc = "check"
    /\ tpc' = IF steps % print_every = 0 THEN "print" ELSE "for_batch"
    /\ UNCHANGED <<svars, rvars, epochs, print_every, loader, e, b, steps, images, labels, output,
                   loss, grad, applied, running_loss, printed, trace>>

\* print("Epoch: {}/{}... ".format(e+1, epochs), "Loss: {:.4f}".format(running_loss/print_every))
PrintLoss ==
    /\ tpc = "print"
    /\ printed' = [epoch |-> e + 1, of |-> epochs, sum |-> running_loss, over |-> print_every]
    /\ lines' = Append(lines, [line |-> printed', e |-> e, b |-> b, steps |-> steps])
    /\ tpc' = "reset"
    /\ UNCHANGED <<svars, summed, testloader, validation, weights, pred, autograd, epochs, print_every, loader, e, b, steps, images, labels, output,
                   loss, grad, applied, running_loss, trace>>

\* running_loss = 0
ResetRunningLoss ==
    /\ tpc = "reset"
    /\ running_loss' = 0
    /\ summed' = <<>>
    /\ tpc' = "for_batch"
    /\ UNCHANGED <<svars, lines, testloader, validation, weights, pred, autograd, epochs, print_every, loader, e, b, steps, images, labels, output,
                   loss, grad, applied, printed, trace>>

NextTrain ==
    \/ ForEpoch \/ InitRunningLoss \/ Iter \/ ForBatch \/ Inc \/ Resize \/ ZeroGrad
    \/ Forward \/ Criterion \/ Backward \/ Step \/ Accumulate \/ Check \/ PrintLoss
    \/ ResetRunningLoss

SpecTrain == InitTrain /\ [][NextTrain]_vars

\* the interpreter runs the next statement as long as there is one
SpecTrainFair == SpecTrain /\ WF_vars(NextTrain)

----------------------------------------------------------------------------
(* Properties of Part 3 *)

\* the five library calls of one batch, in the order of the loop body
BatchCalls == <<"zero_grad", "forward", "criterion", "backward", "step">>

\* the i-th library call of a run over batches of nb per epoch: the batches in
\* order, epoch after epoch, each with its five calls in order
ExpectedCall(i, nb) ==
    <<(i - 1) \div (5 * nb), (((i - 1) % (5 * nb)) \div 5) + 1, BatchCalls[((i - 1) % 5) + 1]>>

\* C8: every batch goes through zero_grad, forward pass, loss computation,
\* backward pass and optimizer step in this order, once each, and the five
\* calls of a batch are over before the first call of the next batch.
C8_FixedOrderPerBatch ==
    /\ Len(trace) <= 5 * epochs * Len(loader)
    /\ \A i \in DOMAIN trace : trace[i] = ExpectedCall(i, Len(loader))
    /\ tpc \in {"for_batch", "for_epoch", "done"} => Len(trace) % 5 = 0

C8_Witness ==
    /\ tpc = "done"
    /\ epochs = 2
    /\ Len(loader) = 3
    /\ Len(trace) = 30
    /\ trace[30] = <<1, 3, "step">>

\* the optimizer steps taken on batch k of epoch n
StepsOn(n, k) == Cardinality({i \in DOMAIN trace : trace[i] = <<n, k, "step">>})

\* C9: the loop over a loader of B batches and E epochs terminates, and when it
\* has, every batch of every epoch was processed exactly once, the optimizer
\* stepped E*B times and steps = E*B.
C9_Terminates ==
    /\ <>(tpc = "done")
    /\ [](tpc = "done" =>
            /\ steps = epochs * Len(loader)
            /\ Cardinality({i \in DOMAIN trace : trace[i][3] = "step"}) = epochs * Len(loader)
            /\ \A n \in 0..(epochs - 1), k \in 1..Len(loader) : StepsOn(n, k) = 1)

C9_Witness ==
    /\ tpc = "done"
    /\ epochs = 2
    /\ Len(loader) = 3
    /\ steps = 6
    /\ StepsOn(1, 3) = 1

----------------------------------------------------------------------------
(* Part 3: what running_loss holds and when a loss is printed *)

RECURSIVE SumLosses(_)
\* the sum of the loss values of a list of <<epoch, batch, value>>
SumLosses(seq) == IF seq = <<>> THEN 0 ELSE seq[Len(seq)][3] + SumLosses(SubSeq(seq, 1, Len(seq) - 1))

\* the statements of the body that run before the loss of the batch is added
BeforeAccumulate ==
    {LoopBody[i] : i \in {j \in DOMAIN LoopBody : j <= CHOOSE k \in DOMAIN LoopBody : LoopBody[k] = "accumulate"}}

\* how many batches of the current epoch have had their loss added
Processed ==
    IF tpc \in {"init_running_loss", "iter"} THEN 0
    ELSE IF tpc \in BeforeAccumulate THEN b - 1
    ELSE b

\* the batch of the current epoch the last line of this epoch followed (0: none)
LastPrintBatch ==
    LET here == {lines[i].b : i \in {j \in DOMAIN lines : lines[j].e = e}}
    IN  IF here = {} THEN 0 ELSE CHOOSE x \in here : \A y \in here : y <= x

\* C12: whenever a loss is printed, running_loss is the sum of the losses of
\* exactly print_every batches, the print_every most recent ones, so that the
\* printed running_loss / print_every is their mean; also at the first print
\* of an epoch after the first.
C12_PrintIsMeanOfPrintEvery ==
    tpc = "print" =>
        /\ Len(summed) = print_every
        /\ running_loss = SumLosses(summed)

\* C13: running_loss is the sum of the losses of the batches processed since
\* the later of the previous print and the start of the current epoch (the
\* two assignments running_loss = 0 being the end of a print and the start
\* of an epoch): these are batches of the current epoch only, consecutive,
\* and at most print_every of them.
C13_RunningLossWindow ==
    tpc \notin {"init_running_loss", "reset"} =>
        /\ running_loss = SumLosses(summed)
        /\ Len(summed) = Processed - LastPrintBatch
        /\ \A i \in DOMAIN summed :
              /\ summed[i][1] = e
              /\ summed[i][2] = LastPrintBatch + i
        /\ Len(summed) <= print_every

C13_Witness ==
    /\ tpc = "print"
    /\ e = 1
    /\ Len(loader) = 3
    /\ print_every = 2
    /\ summed = <<<<1, 1, 2>>>>
    /\ running_loss = 2

\* C14: steps counts the batches of all epochs so far; the k-th line is
\* printed at the batch where steps = k * print_every and at no other batch;
\* a finished run of E epochs of B batches printed floor(E*B / print_every)
\* lines; the epoch labels of the lines never decrease.
C14_PrintsAtMultiples ==
    /\ (e >= 0 /\ tpc \notin {"init_running_loss", "iter", "inc"}) =>
            steps = e * Len(loader) + b
    /\ \A i \in DOMAIN lines :
          /\ lines[i].steps = i * print_every
          /\ lines[i].steps = lines[i].e * Len(loader) + lines[i].b
          /\ lines[i].line.epoch = lines[i].e + 1
          /\ i > 1 => lines[i - 1].line.epoch <= lines[i].line.epoch
    /\ tpc \in {"for_batch", "for_epoch", "init_running_loss", "iter", "done"} =>
            Len(lines) = steps \div print_every
    /\ tpc = "done" => Len(lines) = (epochs * Len(loader)) \div print_every

C14_Witness ==
    /\ tpc = "done"
    /\ epochs = 2
    /\ Len(loader) = 3
    /\ print_every = 2
    /\ Len(lines) = 3
    /\ lines[2].steps = 4
    /\ lines[2].line.epoch = 2

----------------------------------------------------------------------------
(* Part 6: a load_state_dict that raises *)

\* the network is as its constructor left it, for some initial content
FreshlyBuilt(net) ==
    \E seed \in Vals :
        net = Network(InputSizeOf(net), OutputSizeOf(net), WidthsOf(net), seed)

\* the rebuilt network's load_state_dict reported a shape mismatch
ShapeMismatchRaised ==
    /\ pc = 11
    /\ last.cell = "rebuild_and_load"
    /\ last.error.size_mismatch # {}

\* C15 as stated: after a load_state_dict that failed with a shape mismatch
\* every parameter of the target network has the value it had before the
\* call, the one its constructor gave it.
C15_FailedLoadCopiesNothing == ShapeMismatchRaised => FreshlyBuilt(model)

\* C15: after a load_state_dict that failed with a shape mismatch, every
\* parameter whose shape differs from, or whose name is not in, the state dict
\* has the value it had before the call, and every parameter whose shape
\* agrees (such as output.bias) holds the value of the state dict.
C15_FailedLoadCopiesMatching ==
    ShapeMismatchRaised =>
        \E seed \in Vals :
            \A n \in DOMAIN StateDictOf(model) :
                LET p == StateDictOf(model)[n]
                IN  IF n \in DOMAIN state_dict /\ state_dict[n].shape = p.shape
                    THEN p.data = state_dict[n].data
                    ELSE p.data = seed

C15_Witness ==
    /\ ShapeMismatchRaised
    /\ "output.bias" \notin {r.name : r \in last.error.size_mismatch}
    /\ model.output.bias.data = state_dict["output.bias"].data
    /\ model.output.bias.data # model.output.weight.data
    /\ "output.weight" \in {r.name : r \in last.error.size_mismatch}

\* C16: the error lists a tensor only if its shape in the state dict differs
\* from its shape in the target network; when the two networks have the same
\* input size, output size and number n of hidden layers and differ in every
\* hidden width, the tensors listed are the 2n+1 other than output.bias.
C16_ListsOnlyDiffering ==
    (pc = 11 /\ last.cell = "rebuild_and_load") =>
        LET listed == {r.name : r \in last.error.size_mismatch}
            n == Len(model.hidden_layers)
        IN  /\ \A r \in last.error.size_mismatch : r.from # r.to
            /\ \A nm \in listed :
                  StateDictOf(saved.net)[nm].shape # StateDictOf(model)[nm].shape
            /\ OutputSizeOf(model) = OutputSizeOf(saved.net) => "output.bias" \notin listed
            /\ (/\ InputSizeOf(model) = InputSizeOf(saved.net)
                /\ OutputSizeOf(model) = OutputSizeOf(saved.net)
                /\ Len(saved.net.hidden_layers) = n
                /\ \A k \in 1..n : WidthsOf(model)[k] # WidthsOf(saved.net)[k])
               => /\ listed = ExpectedNames(n) \ {"output.bias"}
                  /\ Cardinality(listed) = 2 * n + 1

C16_Witness ==
    /\ pc = 11
    /\ last.cell = "rebuild_and_load"
    /\ WidthsOf(saved.net) = <<1, 2>>
    /\ WidthsOf(model) = <<2, 1>>
    /\ OutputSizeOf(model) = OutputSizeOf(saved.net)
    /\ InputSizeOf(model) = InputSizeOf(saved.net)
    /\ Cardinality(last.error.size_mismatch) = 5

\* C17: when the target network has another number of hidden layers than the
\* network the state dict came from, load_state_dict raises, also when every
\* name present on both sides has the same shape there.
C17_OtherDepthFails ==
    (/\ pc = 11
     /\ last.cell = "rebuild_and_load"
     /\ Len(model.hidden_layers) # Len(saved.net.hidden_layers))
    => /\ last.error.type = "RuntimeError"
       /\ last.error.missing \cup last.error.unexpected # {}

C17_Witness ==
    /\ pc = 11
    /\ last.cell = "rebuild_and_load"
    /\ WidthsOf(saved.net) = <<1>>
    /\ WidthsOf(model) = <<1, 1>>
    /\ InputSizeOf(model) = InputSizeOf(saved.net)
    /\ OutputSizeOf(model) = OutputSizeOf(saved.net)
    /\ last.error.size_mismatch = {}
    /\ last.error.missing = {"hidden_layers.1.weight", "hidden_layers.1.bias"}

----------------------------------------------------------------------------
(* SpecOneFile: the two save cells and the load_checkpoint cell run in any   *)
(* order on a kernel where `model` is bound and load_checkpoint is defined   *)

InitOneFile ==
    /\ TrainIdle
    /\ pc = 0
    /\ model \in Networks({CheckpointInputSize}, {CheckpointOutputSize})
    /\ state_dict = Undef
    /\ checkpoint = Undef
    /\ file = Undef
    /\ trained = Undef
    /\ saved = Undef
    /\ last = Ran("none", NoError)

Run7 == pc = 0 /\ pc' = 0 /\ SaveStateDictCell

Run11 == pc = 0 /\ pc' = 0 /\ SaveCheckpointCell

Run13 == pc = 0 /\ pc' = 0 /\ \E seed \in Vals : LoadCheckpointCell(seed)

NextOneFile == Run7 \/ Run11 \/ Run13

SpecOneFile == InitOneFile /\ [][NextOneFile]_vars

\* C18: both save cells write 'checkpoint.pth'; load_checkpoint run while the
\* file holds the bare state dict of the first save raises the KeyError of
\* 'input_size' and `model` is not rebound; run while it holds the checkpoint
\* mapping it returns a model.
C18_BareStateDictKeyError ==
    [][(\E seed \in Vals : LoadCheckpointCell(seed)) =>
          /\ saved.kind = "state_dict" =>
                /\ file = Dumps(StateDictOf(saved.net))
                /\ last'.error = KeyError("input_size")
                /\ model' = model
          /\ saved.kind = "checkpoint" => last'.error = NoError]_vars

C18_Witness ==
    /\ last = Ran("load_checkpoint", KeyError("input_size"))
    /\ checkpoint = Undef
    /\ saved.kind = "state_dict"
    /\ file = Dumps(StateDictOf(model))

----------------------------------------------------------------------------
(* Part 3: the gradient the optimizer applies *)

\* C19: the gradient optimizer.step() applies at a batch is the gradient of
\* the loss of that batch alone: .grad was cleared by zero_grad before the
\* backward pass of the batch, so no earlier batch contributes.
C19_GradientOfThisBatchOnly ==
    /\ Len(applied) <= 1
    /\ tpc = After("step") => applied = <<<<e, b>>>>
    /\ tpc = "step" => grad = <<<<e, b>>>>

C19_Witness ==
    /\ tpc = After("step")
    /\ e = 1
    /\ b = 2
    /\ applied = <<<<1, 2>>>>
    /\ Len(trace) >= 20

----------------------------------------------------------------------------
(* Part 6: the shapes of the layers *)

\* the Linear layers of a network, the output layer last
LayersOf(net) == net.hidden_layers \o <<net.output>>

\* C20: in every network each Linear layer has a weight of shape
\* [out_features, in_features] and a bias of shape [out_features], and the
\* in_features of every layer but the first is the out_features of the layer
\* before; a network built by load_checkpoint has the checkpoint's input_size
\* as in_features of its first layer, the checkpoint's hidden_layers as the
\* out_features of its hidden layers and the checkpoint's output_size as
\* out_features of its output layer.
C20_WidthsChain ==
    /\ Defined(model) =>
          LET ls == LayersOf(model)
          IN  \A k \in DOMAIN ls :
                /\ ls[k].weight.shape = <<ls[k].out_features, ls[k].in_features>>
                /\ ls[k].bias.shape = <<ls[k].out_features>>
                /\ k > 1 => ls[k].in_features = ls[k - 1].out_features
                /\ k > 1 => ls[k].weight.shape = <<ls[k].weight.shape[1], ls[k - 1].weight.shape[1]>>
    /\ (pc = 14 /\ last = Ran("load_checkpoint", NoError)) =>
          LET n == Len(checkpoint.hidden_layers)
          IN  /\ Len(model.hidden_layers) = n
              /\ model.hidden_layers[1].weight.shape =
                    <<checkpoint.hidden_layers[1], checkpoint.input_size>>
              /\ \A k \in 2..n :
                    model.hidden_layers[k].weight.shape =
                        <<checkpoint.hidden_layers[k], checkpoint.hidden_layers[k - 1]>>
              /\ model.output.weight.shape =
                    <<checkpoint.output_size, checkpoint.hidden_layers[n]>>

C20_Witness ==
    /\ pc = 14
    /\ last = Ran("load_checkpoint", NoError)
    /\ checkpoint.hidden_layers = <<2, 1>>
    /\ model.hidden_layers[2].weight.shape = <<1, 2>>
    /\ model.hidden_layers[1].weight.shape = <<2, 784>>
    /\ model.output.weight.shape = <<10, 1>>

----------------------------------------------------------------------------
(* fc_model.train(model, trainloader, testloader, criterion, optimizer,      *)
(* epochs, print_every): the loop of Part 3 with an evaluation on testloader *)
(* before every print                                                        *)

\* the variables fc_model.train does not use
fcUnused ==
    <<svars, images, labels, output, grad, applied, trace, summed, weights, pred, autograd>>

\* trainloader and testloader: batches of BatchSize
TrainLoaders == {[k \in 1..n |-> BatchSize] : n \in 0..MaxBatches}
TestLoaders == {[k \in 1..n |-> BatchSize] : n \in 1..MaxTestBatches}

\* what one test batch yields: its loss and its accuracy in units of 1/AccSteps
TestDraws(tl) == [DOMAIN tl -> Losses \X (0..AccSteps)]

RECURSIVE SumDraws(_, _, _)
\* the sum of component c of the first n draws
SumDraws(d, c, n) == IF n = 0 THEN 0 ELSE d[n][c] + SumDraws(d, c, n - 1)

\* validation(model, testloader, criterion): the sums over the test batches
\* of the batch loss and of the batch accuracy
Validation(tl, d) ==
    [test_loss |-> SumDraws(d, 1, Len(tl)), accuracy |-> SumDraws(d, 2, Len(tl))]

\* a quotient that is printed: numerator and denominator
Quotient(num, den) == [num |-> num, den |-> den]

\* mutant: the accuracy summed over the test batches is printed undivided
ReportUndivided(ep, eps, rl, pe, v, tl) ==
    [epoch |-> ep, of |-> eps,
     training_loss |-> Quotient(rl, pe),
     test_loss |-> Quotient(v.test_loss, Len(tl)),
     test_accuracy |-> Quotient(v.accuracy, AccSteps)]

\* the line of a progress report: training loss running_loss/print_every,
\* test loss and test accuracy each divided by len(testloader)
Report(ep, eps, rl, pe, v, tl) ==
    [epoch |-> ep, of |-> eps,
     training_loss |-> Quotient(rl, pe),
     test_loss |-> Quotient(v.test_loss, Len(tl)),
     test_accuracy |-> Quotient(v.accuracy, AccSteps * Len(tl))]

InitFcTrain ==
    /\ NotebookIdle
    /\ epochs \in 0..MaxEpochs
    /\ print_every \in 1..MaxPrintEvery
    /\ loader \in TrainLoaders
    /\ testloader \in TestLoaders
    /\ tpc = "fc_for_epoch"
    /\ e = -1 /\ b = 0 /\ steps = 0 /\ images = <<>> /\ labels = <<>>
    /\ output = Undef /\ loss = Undef /\ grad = <<>> /\ applied = <<>>
    /\ running_loss = 0 /\ printed = Undef /\ trace = <<>>
    /\ summed = <<>> /\ lines = <<>> /\ validation = Undef
    /\ weights = <<>> /\ pred = Undef /\ autograd = AutogradStart

\* for e in range(epochs):
FcForEpoch ==
    /\ tpc = "fc_for_epoch"
    /\ IF InRange(e + 1)
       THEN e' = e + 1 /\ b' = 0 /\ tpc' = "fc_for_batch"
       ELSE e' = e /\ b' = b /\ tpc' = "fc_done"
    /\ UNCHANGED <<fcUnused, epochs, print_every, loader, testloader, steps, loss,
                   running_loss, printed, lines, validation>>

\* for images, labels in trainloader:
FcForBatch ==
    /\ tpc = "fc_for_batch"
    /\ IF HasNext(b)
       THEN b' = b + 1 /\ tpc' = "fc_inc"
       ELSE b' = b /\ tpc' = "fc_for_epoch"
    /\ UNCHANGED <<fcUnused, epochs, print_every, loader, testloader, e, steps, loss,
                   running_loss, printed, lines, validation>>

\* steps += 1
FcInc ==
    /\ tpc = "fc_inc"
    /\ steps' = steps + 1
    /\ tpc' = "fc_train_step"
    /\ UNCHANGED <<fcUnused, epochs, print_every, loader, testloader, e, b, loss,
                   running_loss, printed, lines, validation>>

\* the training step on the batch and running_loss += loss.item()
FcTrainStep ==
    /\ tpc = "fc_train_step"
    /\ \E v \in Losses : running_loss' = running_loss + v
    /\ tpc' = "fc_check"
    /\ UNCHANGED <<fcUnused, epochs, print_every, loader, testloader, e, b, steps, loss,
                   printed, lines, validation>>

\* if steps % print_every == 0:
FcCheck ==
    /\ tpc = "fc_check"
    /\ tpc' = IF steps % print_every = 0 THEN "fc_validate" ELSE "fc_for_batch"
    /\ UNCHANGED <<fcUnused, epochs, print_every, loader, testloader, e, b, steps, loss,
                   running_loss, printed, lines, validation>>

\* test_loss, accuracy = validation(model, testloader, criterion)
FcValidate ==
    /\ tpc = "fc_validate"
    /\ \E d \in TestDraws(testloader) : validation' = Validation(testloader, d)
    /\ tpc' = "fc_print"
    /\ UNCHANGED <<fcUnused, epochs, print_every, loader, testloader, e, b, steps, loss,
                   running_loss, printed, lines>>

\* print("Epoch: ..", "Training Loss: ..", "Test Loss: ..", "Test Accuracy: ..")
FcPrint ==
    /\ tpc = "fc_print"
    /\ printed' = Report(e + 1, epochs, running_loss, print_every, validation, testloader)
    /\ lines' = Append(lines, [line |-> [epoch |-> e + 1], e |-> e, b |-> b, steps |-> steps])
    /\ tpc' = "fc_reset"
    /\ UNCHANGED <<fcUnused, epochs, print_every, loader, testloader, e, b, steps, loss,
                   running_loss, validation>>

\* running_loss = 0
FcReset ==
    /\ tpc = "fc_reset"
    /\ running_loss' = 0
    /\ tpc' = "fc_for_batch"
    /\ UNCHANGED <<fcUnused, epochs, print_every, loader, testloader, e, b, steps, loss,
                   printed, lines, validation>>

NextFcTrain ==
    \/ FcForEpoch \/ FcForBatch \/ FcInc \/ FcTrainStep \/ FcCheck \/ FcValidate
    \/ FcPrint \/ FcReset

SpecFcTrain == InitFcTrain /\ [][NextFcTrain]_vars

\* C11: fc_model.train evaluates on the held-out set before every progress
\* report: the report carries a training loss, a held-out loss and a held-out
\* accuracy, all of the evaluation made at that step; the k-th report comes
\* at training step k * print_every, in whatever epoch that step falls; the
\* reported accuracy is at least 0 and at most 1.
C11_PeriodicEvaluation ==
    /\ Defined(printed) =>
          /\ DOMAIN printed = {"epoch", "of", "training_loss", "test_loss", "test_accuracy"}
          /\ printed.test_accuracy.den > 0
          /\ 0 <= printed.test_accuracy.num
          /\ printed.test_accuracy.num <= printed.test_accuracy.den
    /\ tpc = "fc_reset" =>
          /\ printed.test_loss.num = validation.test_loss
          /\ printed.test_accuracy.num = validation.accuracy
          /\ printed.training_loss.num = running_loss
    /\ \A i \in DOMAIN lines : lines[i].steps = i * print_every
    /\ tpc \in {"fc_for_batch", "fc_for_epoch", "fc_done"} =>
          Len(lines) = steps \div print_every
    /\ tpc = "fc_done" => Len(lines) = (epochs * Len(loader)) \div print_every

C11_Witness ==
    /\ tpc = "fc_done"
    /\ epochs = 2
    /\ Len(loader) = 3
    /\ print_every = 2
    /\ Len(testloader) = 2
    /\ Len(lines) = 3
    /\ lines[2].line.epoch = 2
    /\ printed.test_accuracy = Quotient(2 * AccSteps, 2 * AccSteps)

----------------------------------------------------------------------------
(* Part 3: the rows given to the forward pass *)

\* the statements of the body that run after `stmt`
AfterInBody(stmt) ==
    {LoopBody[i] : i \in {j \in DOMAIN LoopBody : j > CHOOSE k \in DOMAIN LoopBody : LoopBody[k] = stmt}}

\* C21: every batch, a last batch smaller than the batch size of the loader
\* included, is flattened to as many rows of 784 values as it has images,
\* and the forward pass gets as many rows as the batch has labels.
C21_RowsMatchLabels ==
    /\ tpc \in AfterInBody("resize") =>
          /\ labels = <<loader[b]>>
          /\ images = <<labels[1], FlatSize>>
    /\ tpc \in AfterInBody("forward") =>
          /\ output.of = <<e, b>>
          /\ output.rows = labels[1]

C21_Witness ==
    /\ tpc = After("forward")
    /\ b = Len(loader)
    /\ b = 3
    /\ loader[b] < BatchSize
    /\ labels = <<loader[b]>>
    /\ images = <<loader[b], FlatSize>>
    /\ output.rows = loader[b]

----------------------------------------------------------------------------
(* Part 3: the prediction cell, run after the training loop *)

\* the variables the prediction cell does not name
predUnused ==
    <<svars, summed, lines, testloader, validation, autograd, epochs, print_every, loader,
      e, b, steps, output, loss, running_loss, printed>>

\* images, labels = next(iter(trainloader)): StopIteration on an empty loader
PredictNext ==
    /\ tpc = "done"
    /\ IF Len(loader) > 0
       THEN /\ images' = <<loader[1], 1, 28, 28>>
            /\ labels' = <<loader[1]>>
            /\ tpc' = "view"
       ELSE /\ UNCHANGED <<images, labels>>
            /\ tpc' = "stop_iteration"
    /\ UNCHANGED <<predUnused, grad, applied, weights, trace, pred>>

\* img = images[0].view(1, 784)
PredictView ==
    /\ tpc = "view"
    /\ pred' = [img |-> <<1, FlatSize>>]
    /\ tpc' = "no_grad_forward"
    /\ UNCHANGED <<predUnused, images, labels, grad, applied, weights, trace>>

\* mutant: the gradients are cleared before the forward pass, as in the training step
PredictForwardZeroGrad ==
    /\ tpc = "no_grad_forward"
    /\ pred' = [img |-> pred.img, logits |-> [rows |-> pred.img[1], requires_grad |-> FALSE]]
    /\ grad' = <<>>
    /\ tpc' = "softmax"
    /\ UNCHANGED <<predUnused, images, labels, applied, weights, trace>>

\* with torch.no_grad(): logits = model.forward(img)
PredictForward ==
    /\ tpc = "no_grad_forward"
    /\ pred' = [img |-> pred.img, logits |-> [rows |-> pred.img[1], requires_grad |-> FALSE]]
    /\ tpc' = "softmax"
    /\ UNCHANGED <<predUnused, images, labels, grad, applied, weights, trace>>

\* ps = F.softmax(logits, dim=1)
PredictSoftmax ==
    /\ tpc = "softmax"
    /\ pred' = [img |-> pred.img, logits |-> pred.logits, ps |-> [rows |-> pred.logits.rows]]
    /\ tpc' = "view_classify"
    /\ UNCHANGED <<predUnused, images, labels, grad, applied, weights, trace>>

\* helper.view_classify(img.view(1, 28, 28), ps)
PredictViewClassify ==
    /\ tpc = "view_classify"
    /\ tpc' = "predicted"
    /\ UNCHANGED <<predUnused, images, labels, grad, applied, weights, trace, pred>>

PredictionCell ==
    PredictNext \/ PredictView \/ PredictForward \/ PredictSoftmax \/ PredictViewClassify

NextPredict == NextTrain \/ PredictionCell

SpecPredict == InitTrain /\ [][NextPredict]_vars

\* C22: no statement of the prediction cell changes a parameter of the model
\* or a stored gradient, and none is an optimizer step; when the cell is
\* over the parameters are those the E*B steps of the training loop left and
\* .grad holds what the last backward pass of the loop left.
C22_PredictionLeavesModel ==
    [][PredictionCell =>
          /\ weights' = weights
          /\ grad' = grad
          /\ applied' = applied
          /\ trace' = trace
          /\ Len(weights') = epochs * Len(loader)
          /\ grad' = IF epochs * Len(loader) > 0 THEN <<<<epochs - 1, Len(loader)>>>> ELSE <<>>]_vars

C22_Witness ==
    /\ tpc = "predicted"
    /\ epochs = 2
    /\ Len(loader) = 3
    /\ Len(weights) = 6
    /\ weights[6] = <<<<1, 3>>>>
    /\ grad = <<<<1, 3>>>>
    /\ pred.ps = [rows |-> 1]

----------------------------------------------------------------------------
(* Part 3: the autograd cells In[2] to In[7]. A real number is a quotient of *)
(* integers; a 2x2 tensor is a function on its indices.                      *)

\* the variables the autograd cells do not name
autoUnused == <<svars, tvars, summed, lines, testloader, validation, weights, pred>>

\* torch.randn(2, 2): the indices of the tensor and the values it may hold
Indices == (1..2) \X (1..2)
XVals == (0 - MaxX)..MaxX

RECURSIVE SumOver(_, _)
\* the sum of the entries of t at the indices of S
SumOver(t, S) ==
    IF S = {} THEN 0
    ELSE LET i == CHOOSE j \in S : TRUE IN t[i] + SumOver(t, S \ {i})

\* x**2, element-wise
Pow2(t) == [i \in DOMAIN t |-> t[i] * t[i]]

\* y.mean(): the sum of the entries over their number
Mean(t) == Quotient(SumOver(t, DOMAIN t), Cardinality(DOMAIN t))

\* MeanBackward: the gradient g of the mean reaches every entry divided by their number
MeanBackward(t, g) == [i \in DOMAIN t |-> Quotient(g.num, g.den * Cardinality(DOMAIN t))]

\* mutant: the derivative of x**2 taken as x
PowBackwardNoFactor(t, g) == [i \in DOMAIN t |-> Quotient(g[i].num * t[i], g[i].den)]

\* PowBackward: the gradient g of x**2 reaches x multiplied by 2 * x
PowBackward(t, g) == [i \in DOMAIN t |-> Quotient(g[i].num * 2 * t[i], g[i].den)]

\* z.backward() for z = (x**2).mean(): the gradient 1 of z taken back to x
BackwardOfZ(xt) == PowBackward(xt, MeanBackward(Pow2(xt), Quotient(1, 1)))

\* x / 2, element-wise
Halved(t) == [i \in DOMAIN t |-> Quotient(t[i], 2)]

\* two quotients are the same number
SameNumber(p, q) == p.num * q.den = q.num * p.den

InitAutograd == NotebookIdle /\ TrainIdle

\* x = torch.randn(2,2, requires_grad=True)
Grad2 ==
    /\ autograd.cell = 2
    /\ \E t \in [Indices -> XVals] : autograd' = [autograd EXCEPT !.cell = 3, !.x = t]
    /\ UNCHANGED autoUnused

\* y = x**2
Grad3 ==
    /\ autograd.cell = 3
    /\ autograd' = [autograd EXCEPT !.cell = 4, !.y = Pow2(autograd.x)]
    /\ UNCHANGED autoUnused

\* print(y.grad_fn)
Grad4 ==
    /\ autograd.cell = 4
    /\ autograd' = [autograd EXCEPT !.cell = 5]
    /\ UNCHANGED autoUnused

\* z = y.mean()
Grad5 ==
    /\ autograd.cell = 5
    /\ autograd' = [autograd EXCEPT !.cell = 6, !.z = Mean(autograd.y)]
    /\ UNCHANGED autoUnused

\* print(z.grad): None; no gradient is stored before backward() has run
Grad6 ==
    /\ autograd.cell = 6
    /\ autograd' = [autograd EXCEPT !.cell = 7]
    /\ UNCHANGED autoUnused

\* z.backward(); print(x.grad); print(x/2): x.grad was None and gets the gradient
Grad7 ==
    /\ autograd.cell = 7
    /\ autograd' = [autograd EXCEPT !.cell = 8, !.x_grad = BackwardOfZ(autograd.x)]
    /\ UNCHANGED autoUnused

NextAutograd == Grad2 \/ Grad3 \/ Grad4 \/ Grad5 \/ Grad6 \/ Grad7

SpecAutograd == InitAutograd /\ [][NextAutograd]_vars

\* C23: z is the mean of the squares of the four entries of x, x.grad is
\* None until z.backward() has run, and from then on every entry of x.grad
\* is half the entry of x at the same index.
C23_GradIsHalfX ==
    /\ autograd.cell > 5 =>
          autograd.z = Quotient(SumOver([i \in Indices |-> autograd.x[i] * autograd.x[i]], Indices), 4)
    /\ autograd.cell <= 7 => autograd.x_grad = Undef
    /\ autograd.cell > 7 =>
          /\ DOMAIN autograd.x_grad = Indices
          /\ \A i \in Indices :
                /\ autograd.x_grad[i].den > 0
                /\ 2 * autograd.x_grad[i].num = autograd.x[i] * autograd.x_grad[i].den
                /\ SameNumber(autograd.x_grad[i], Halved(autograd.x)[i])

C23_Witness ==
    /\ autograd.cell = 8
    /\ autograd.x[<<1, 1>>] = 1
    /\ autograd.x[<<2, 2>>] = 0 - 1
    /\ autograd.x_grad[<<1, 1>>] = Quotient(2, 4)
    /\ autograd.x_grad[<<2, 2>>] = Quotient(0 - 2, 4)
    /\ autograd.z.num = SumOver(autograd.y, Indices)

====
